---- MODULE Spec2Model ----
(***************************************************************************)
(* Session orchestration client of the TRIZ solver: the polling hook       *)
(* useStepPolling, the session hook useSession, the zustand session store  *)
(* and the page guards, against the session state machine of the backend.  *)
(*                                                                         *)
(* SpecHook drives useStepPolling the way its unit tests do: a caller      *)
(* re-renders it with a new taskId, calls stopPolling, unmounts it, and a  *)
(* mocked getTaskStatus answers every request with any status.             *)
(*                                                                         *)
(* Spec is the session page: SessionPage with useSession and the hook,     *)
(* the store, the user's clicks, leaving the page and opening it again,    *)
(* and the backend (the session state machine and its worker).             *)
(***************************************************************************)
EXTENDS Integers, Sequences, FiniteSets, TLC

(***************************************************************************)
(* Bounds of the model.                                                    *)
(***************************************************************************)
\* POLLING.MAX_RETRIES, scaled down (120 in utils/constants, 5 in the tests)
MAX_RETRIES == 4
\* number of polling runs (effect starts) followed in one behaviour
MaxRuns == 2
\* task handles the caller can pass
NTasks == 2
\* sessions on the backend
NSessions == 2
\* times the session page is mounted in one behaviour
MaxMounts == 2
\* steps in the registry of the mode
NSteps == 2
\* StepResult rows followed per session
MaxRows == 3
\* things the user does in one behaviour: clicks, leaving, opening a page
MaxClicks == 4
\* clicks on step buttons followed in one behaviour of the step list
MaxStepClicks == 2

(***************************************************************************)
(* POLLING configuration (utils/constants).                                *)
(***************************************************************************)
INITIAL_INTERVAL_MS == 1000
MAX_INTERVAL_MS == 3000
\* BACKOFF_FACTOR 1.5 as a fraction
BACKOFF_NUM == 3
BACKOFF_DEN == 2

Tasks == 1..NTasks
Sessions == 1..NSessions
Insts == 1..MaxMounts
NoTask == 0

Min(a, b) == IF a <= b THEN a ELSE b

\* error messages of the hook (the Russian texts, by their meaning)
MsgFailure == "processing error, try submitting again"
MsgTimeout == "response wait time exceeded"
MsgRequest == "could not check the task status"

VARIABLES
  inst,         \* the hook instance of the latest mount
  mounted,      \* that instance is mounted
  sessionId,    \* prop sessionId of each instance
  taskId,       \* prop taskId of the last render (NoTask = null)
  polling,      \* state isPolling of useStepPolling
  result,       \* state result (NullResult or a TaskStatus)
  pollError,    \* state error of useStepPolling ("null" or a message)
  timerRef,     \* timerRef.current of each instance: 0 = null, else the run
                \* whose timer it holds
  delayRef,     \* delayRef.current of each instance
  retriesRef,   \* retriesRef.current of each instance
  runs,         \* the poll chains started so far, one per effect start
  stopped,      \* history: stopPolling was called and no run started since
  lateSignals   \* history: onComplete/onError was invoked after unmount

VARIABLES
  srvCur,        \* backend: Session.current_step of each session (its index)
  srvStatus,     \* backend: Session.status of each session
  rows,          \* backend: the StepResult rows of each session, by creation
  tasks,         \* backend: the execution handles and what each resolved to
  session,       \* store: session
  progress,      \* store: progress
  currentStep,   \* store: currentStep
  isSubmitting,  \* store: isSubmitting
  pollingTaskId, \* store: pollingTaskId
  isPolling,     \* useSession: isPolling
  error,         \* useSession: error
  isAdvancing,   \* useSession: isAdvancing
  ops,           \* the handlers that are waiting for a response
  clicks         \* what the user has done so far (counted up to MaxClicks)

VARIABLES
  stepProgress,  \* StepProgress: props.progress.steps_completed, the
                 \* completed flag of each step code
  onStepClick,   \* StepProgress: the prop onStepClick is given
  compact,       \* StepProgress: the prop compact
  expanded,      \* StepProgress: state expanded of the compact view
  stepClicks     \* history: the clicks on step buttons and what each invoked

hookVars == <<inst, mounted, sessionId, taskId, polling, result, pollError,
              timerRef, delayRef, retriesRef, runs, stopped, lateSignals>>

srvVars == <<srvCur, srvStatus, rows, tasks>>
storeVars == <<session, progress, currentStep, isSubmitting, pollingTaskId>>
pageVars == <<isPolling, error, isAdvancing>>
appVars == <<srvVars, storeVars, pageVars, ops, clicks>>

stepVars == <<stepProgress, onStepClick, compact, expanded, stepClicks>>

vars == <<hookVars, appVars, stepVars>>

(***************************************************************************)
(* TaskStatus values returned by getTaskStatus; "reject" is a rejected     *)
(* request.                                                                *)
(***************************************************************************)
TaskStatuses ==
  { [ready |-> TRUE, status |-> "SUCCESS"],
    [ready |-> TRUE, status |-> "FAILURE"],
    [ready |-> FALSE, status |-> "PENDING"],
    [ready |-> FALSE, status |-> "FAILURE"] }

\* a rejected request (network or HTTP error): getTaskStatus throws
Rejection == [ready |-> FALSE, status |-> "REJECTED"]

Responses == TaskStatuses \cup {Rejection}

\* result = null, and "no response yet" in the history of a run
NullResult == [ready |-> FALSE, status |-> "null"]

(***************************************************************************)
(* poll(): the branch a response takes, given retriesRef before it.        *)
(***************************************************************************)
RetriesExhaustedOffByOne(n) == n > MAX_RETRIES
RetriesExhausted(n) == n >= MAX_RETRIES

ReadyBranchSuccessOnly(r) == r.ready /\ r.status = "SUCCESS"
ReadyBranch(r) == r.ready

PollBranch(r, retries) ==
  IF r = Rejection THEN "catch"
  ELSE IF ReadyBranch(r) THEN "ready"
  ELSE IF r.status = "FAILURE" THEN "failure"
  ELSE IF RetriesExhausted(retries + 1) THEN "timeout"
  ELSE "next"

\* every terminal branch returns before the scheduling code
SchedulesNextNoReturn(branch) == branch \in {"next", "timeout"}
SchedulesNext(branch) == branch = "next"

NextDelayAdditive(d) == Min(d + 500, MAX_INTERVAL_MS)
NextDelayNoCap(d) == (d * BACKOFF_NUM) \div BACKOFF_DEN
NextDelay(d) == Min((d * BACKOFF_NUM) \div BACKOFF_DEN, MAX_INTERVAL_MS)

\* which callback a branch invokes
\* setIsPolling(false) is in every branch that ends the run
StopsPollingReadyOnly(branch) == branch = "ready"
StopsPolling(branch) == branch \in {"ready", "failure", "timeout", "catch"}

\* delayRef and retriesRef are reset in every branch that ends the run
ResetsBackoffNotInCatch(branch) == branch \in {"ready", "failure", "timeout"}
ResetsBackoff(branch) == branch \in {"ready", "failure", "timeout", "catch"}

CallsOnComplete(branch) == branch = "ready"
CallsOnErrorNoReturn(branch) == branch \in {"ready", "failure", "timeout", "catch"}
CallsOnError(branch) == branch \in {"failure", "timeout", "catch"}

BranchMessage(branch) ==
  CASE branch = "failure" -> MsgFailure
    [] branch = "timeout" -> MsgTimeout
    [] branch = "catch" -> MsgRequest
    [] OTHER -> "null"

(***************************************************************************)
(* Runs.  A run is one start of the polling effect: the chain of timers    *)
(* and requests that begins with its setTimeout(poll, INITIAL_INTERVAL).   *)
(* inst is the hook instance it belongs to, tid the taskId captured by the  *)
(* poll closure (its sessionId is that of the instance).  The other fields *)
(* are history: nComplete/nError = callback invocations, fin = the         *)
(* response that ended the run, clean = nothing interfered with the run    *)
(* since it started; of a clean run also polls = getTaskStatus calls       *)
(* issued, waits = unsuccessful (not ready, not failed) responses and      *)
(* delays = the delays of its timers.                                      *)
(***************************************************************************)
NewRun(i, tid, isClean) ==
  [inst |-> i, tid |-> tid, st |-> "timer", polls |-> 0,
   waits |-> 0, delays |-> IF isClean THEN <<INITIAL_INTERVAL_MS>> ELSE <<>>,
   nComplete |-> 0, nError |-> 0, fin |-> NullResult, clean |-> isClean]

\* once a run has ended its closure is garbage: tid is dropped
RunIds == 1..Len(runs)
Alive(c) == runs[c].st \in {"timer", "flight"}
TimerPending(c) == runs[c].st = "timer"

\* clearTimer(): clearTimeout(timerRef.current) and timerRef.current = null
ClearedRuns(rs, ref) ==
  [c \in DOMAIN rs |->
     IF c = ref /\ rs[c].st = "timer"
     THEN [rs[c] EXCEPT !.st = "cleared", !.tid = NoTask]
     ELSE rs[c]]

\* history: an outside event hits the runs that are still going
Disturbed(rs) ==
  [c \in DOMAIN rs |->
     IF rs[c].st \in {"timer", "flight"}
     THEN [rs[c] EXCEPT !.clean = FALSE, !.polls = 0, !.waits = 0,
                        !.delays = <<>>]
     ELSE rs[c]]

\* history: the record of a run that has ended is dropped when the props
\* change
EndedRun ==
  [inst |-> 0, tid |-> NoTask, st |-> "ended", polls |-> 0, waits |-> 0,
   delays |-> <<>>, nComplete |-> 0, nError |-> 0, fin |-> NullResult,
   clean |-> FALSE]

Archived(rs) ==
  [c \in DOMAIN rs |->
     IF rs[c].st \in {"timer", "flight"} THEN rs[c] ELSE EndedRun]

(***************************************************************************)
(* Render with a new taskId.  The start effect depends on [taskId, poll]   *)
(* and poll on [sessionId, taskId]: it re-runs when the prop changes.  Its *)
(* cleanup exists only if the previous run of the effect had a taskId.     *)
(***************************************************************************)
EffectStart(i, tid, rs, ref) ==
  IF tid = NoTask
  THEN /\ runs' = rs
       /\ timerRef' = [timerRef EXCEPT ![i] = ref]
       /\ UNCHANGED <<polling, result, pollError, delayRef, retriesRef,
                      stopped>>
  ELSE /\ runs' = Append(rs, NewRun(i, tid, \A c \in DOMAIN rs :
                                      rs[c].st \notin {"timer", "flight"}))
       /\ timerRef' = [timerRef EXCEPT ![i] = Len(rs) + 1]
       /\ polling' = TRUE
       /\ result' = NullResult
       /\ pollError' = "null"
       /\ delayRef' = [delayRef EXCEPT ![i] = INITIAL_INTERVAL_MS]
       /\ retriesRef' = [retriesRef EXCEPT ![i] = 0]
       /\ stopped' = FALSE

Rerender(tid) ==
  /\ mounted
  /\ tid # taskId
  /\ tid # NoTask => Len(runs) < MaxRuns
  /\ taskId' = tid
  /\ LET cleaned == IF taskId # NoTask
                    THEN Archived(ClearedRuns(Disturbed(runs), timerRef[inst]))
                    ELSE Archived(Disturbed(runs))
         ref == IF taskId # NoTask THEN 0 ELSE timerRef[inst]
     IN EffectStart(inst, tid, cleaned, ref)
  /\ UNCHANGED <<inst, mounted, sessionId, lateSignals>>

(***************************************************************************)
(* stopPolling()                                                           *)
(***************************************************************************)
StopPolling ==
  /\ mounted
  /\ runs' = ClearedRuns(Disturbed(runs), timerRef[inst])
  /\ timerRef' = [timerRef EXCEPT ![inst] = 0]
  /\ polling' = FALSE
  /\ delayRef' = [delayRef EXCEPT ![inst] = INITIAL_INTERVAL_MS]
  /\ retriesRef' = [retriesRef EXCEPT ![inst] = 0]
  /\ stopped' = TRUE
  /\ UNCHANGED <<inst, mounted, sessionId, taskId, result, pollError,
                 lateSignals>>

(***************************************************************************)
(* Unmount: the cleanups of both effects call clearTimer().                *)
(***************************************************************************)
Unmount ==
  /\ mounted
  /\ mounted' = FALSE
  /\ runs' = ClearedRuns(Disturbed(runs), timerRef[inst])
  /\ timerRef' = [timerRef EXCEPT ![inst] = 0]
  /\ UNCHANGED <<inst, sessionId, taskId, polling, result, pollError,
                 delayRef, retriesRef, stopped, lateSignals>>

(***************************************************************************)
(* A timer fires: poll() runs up to its await.                             *)
(***************************************************************************)
TimerFire(c) ==
  /\ c \in RunIds
  /\ TimerPending(c)
  /\ runs' = [runs EXCEPT ![c] =
       IF runs[c].tid = NoTask \/ sessionId[runs[c].inst] = 0
       THEN [@ EXCEPT !.st = "returned"]
       ELSE [@ EXCEPT !.st = "flight",
                      !.polls = IF runs[c].clean THEN @ + 1 ELSE @]]
  /\ UNCHANGED <<inst, mounted, sessionId, taskId, polling, result,
                 pollError, timerRef, delayRef, retriesRef, stopped,
                 lateSignals>>

(***************************************************************************)
(* getTaskStatus settles with r: the rest of poll().  State setters of an  *)
(* unmounted component do nothing; refs and callbacks still work.          *)
(***************************************************************************)
\* the instance of run c is the one on screen
OnScreen(c) == mounted /\ runs[c].inst = inst

PollReturn(c, r) ==
  /\ c \in RunIds
  /\ runs[c].st = "flight"
  /\ LET i == runs[c].inst
         branch == PollBranch(r, retriesRef[i])
         again == SchedulesNext(branch)
         delay == NextDelay(delayRef[i])
     IN /\ runs' = [runs EXCEPT ![c] =
               [@ EXCEPT !.st = IF again THEN "timer" ELSE "done",
                         !.tid = IF again THEN @ ELSE NoTask,
                         !.waits = IF runs[c].clean
                                      /\ branch \in {"next", "timeout"}
                                   THEN @ + 1 ELSE @,
                         !.delays = IF runs[c].clean /\ again
                                    THEN Append(@, delay) ELSE @,
                         !.nComplete = IF CallsOnComplete(branch)
                                       THEN @ + 1 ELSE @,
                         !.nError = IF CallsOnError(branch)
                                    THEN @ + 1 ELSE @,
                         !.fin = IF branch = "next" THEN @ ELSE r]]
        /\ timerRef' = IF again THEN [timerRef EXCEPT ![i] = c] ELSE timerRef
        /\ delayRef' = [delayRef EXCEPT ![i] =
                          IF ResetsBackoff(branch) THEN INITIAL_INTERVAL_MS
                          ELSE IF branch = "next" THEN delay ELSE @]
        /\ retriesRef' = [retriesRef EXCEPT ![i] =
                            IF ResetsBackoff(branch) THEN 0
                            ELSE IF branch = "next" THEN @ + 1 ELSE @]
        /\ polling' = IF OnScreen(c) /\ StopsPolling(branch)
                      THEN FALSE ELSE polling
        /\ result' = IF OnScreen(c) /\ branch = "ready" THEN r ELSE result
        /\ pollError' = IF OnScreen(c) /\ CallsOnError(branch)
                        THEN BranchMessage(branch) ELSE pollError
        /\ lateSignals' = (lateSignals \/ (~OnScreen(c) /\ branch # "next"))
  /\ UNCHANGED <<inst, mounted, sessionId, taskId, stopped>>

\* the hook of a page that has just been mounted
HookStart ==
  /\ inst = 1
  /\ mounted = TRUE
  /\ taskId = NoTask
  /\ polling = FALSE
  /\ result = NullResult
  /\ pollError = "null"
  /\ timerRef = [i \in Insts |-> 0]
  /\ delayRef = [i \in Insts |-> INITIAL_INTERVAL_MS]
  /\ retriesRef = [i \in Insts |-> 0]
  /\ runs = <<>>
  /\ stopped = FALSE
  /\ lateSignals = FALSE

(***************************************************************************)
(* The backend: the session state machine and the execution gateway.       *)
(***************************************************************************)
Steps == 1..NSteps

NoStep == [sid |-> 0, step |-> 0, status |-> "null"]
NoSession == [sid |-> 0, status |-> "null"]
NoProgress == [sid |-> 0, current_index |-> 0]

\* a new StepResult; notes = the validation notes are not empty
NewRow(k, st) == [step |-> k, status |-> st, notes |-> FALSE]

\* start_session(): the first step with a pending placeholder
BackendStart ==
  /\ srvCur = [s \in Sessions |-> 1]
  /\ srvStatus = [s \in Sessions |-> "active"]
  /\ rows = [s \in Sessions |-> <<NewRow(1, "pending")>>]
  /\ tasks = <<>>

\* the latest StepResult of a step is the authoritative one
LatestRow(rs, k) ==
  LET idx == {j \in 1..Len(rs) : rs[j].step = k}
  IN CHOOSE j \in idx : \A m \in idx : m <= j

CurRow(s) == LatestRow(rows[s], srvCur[s])
CurStatus(s) == rows[s][CurRow(s)].status

\* GET current-step, progress, session
GetCurrentStep(s) == [sid |-> s, step |-> srvCur[s], status |-> CurStatus(s)]
GetProgress(s) == [sid |-> s, current_index |-> srvCur[s] - 1]
GetSession(s) == [sid |-> s, status |-> srvStatus[s]]

\* GET task status
TaskStatusOf(t) ==
  [ready |-> tasks[t].state # "PENDING", status |-> tasks[t].state]

SubmitAllowed(s) ==
  srvStatus[s] = "active" /\ CurStatus(s) \in {"pending", "failed"}

AdvanceAllowed(s) == srvStatus[s] = "active" /\ CurStatus(s) = "completed"

BackAllowed(s) == srvCur[s] > 1

(***************************************************************************)
(* Requests in flight.  An op is a handler of some instance suspended at   *)
(* an await: h is the handler, pc the request it waits for ("sent" = a     *)
(* POST the backend has not handled yet), t and v what the response        *)
(* carries.                                                                *)
(***************************************************************************)
Op(h, pc, s, i) == [h |-> h, pc |-> pc, sid |-> s, inst |-> i, t |-> NoTask,
                    v |-> NoStep]

OpOnScreen(op) == mounted /\ op.inst = inst

MsgSubmit == "could not send the answer, try again"
MsgAdvance == "could not go to the next step"
MsgBack == "cannot go back"

\* submit_step: the rows of session s once its current step is submitted;
\* a pending placeholder is marked in_progress, a retry is a new row
SubmittedRowsOverwrite(s) ==
  [rows[s] EXCEPT ![CurRow(s)] = NewRow(srvCur[s], "in_progress")]
SubmittedRows(s) ==
  IF CurStatus(s) = "pending"
  THEN [rows[s] EXCEPT ![CurRow(s)].status = "in_progress"]
  ELSE Append(rows[s], NewRow(srvCur[s], "in_progress"))

\* submit_step
ServerSubmit(op) ==
  /\ op \in ops /\ op.h = "submit" /\ op.pc = "sent"
  /\ LET s == op.sid IN
     IF SubmitAllowed(s)
     THEN /\ Len(tasks) < NTasks
          /\ CurStatus(s) = "failed" => Len(rows[s]) < MaxRows
          /\ LET rs == SubmittedRows(s)
             IN /\ rows' = [rows EXCEPT ![s] = rs]
                /\ tasks' = Append(tasks, [sid |-> s,
                                           row |-> LatestRow(rs, srvCur[s]),
                                           state |-> "PENDING"])
          /\ ops' = (ops \ {op}) \cup
                      {[op EXCEPT !.pc = "ok", !.t = Len(tasks) + 1]}
     ELSE /\ ops' = (ops \ {op}) \cup {[op EXCEPT !.pc = "err"]}
          /\ UNCHANGED <<rows, tasks>>
  /\ UNCHANGED <<clicks, srvCur, srvStatus, storeVars, pageVars, hookVars>>

\* the worker resolves a handle: the StepResult becomes completed or failed
Worker(t, ok) ==
  /\ t \in 1..Len(tasks)
  /\ tasks[t].state = "PENDING"
  /\ tasks' = [tasks EXCEPT ![t].state = IF ok THEN "SUCCESS" ELSE "FAILURE"]
  /\ rows' = [rows EXCEPT ![tasks[t].sid][tasks[t].row] =
                [@ EXCEPT !.status = IF ok THEN "completed" ELSE "failed",
                          !.notes = ~ok]]
  /\ UNCHANGED <<clicks, srvCur, srvStatus, storeVars, pageVars, hookVars, ops>>

\* the answer of advance_to_next on the last step: {detail, completed}
Sentinel(s) == [sid |-> s, step |-> 0, status |-> "sentinel"]

\* advance_to_next
ServerAdvance(op) ==
  /\ op \in ops /\ op.h = "advance" /\ op.pc = "sent"
  /\ LET s == op.sid IN
     IF ~AdvanceAllowed(s)
     THEN /\ ops' = (ops \ {op}) \cup {[op EXCEPT !.pc = "err"]}
          /\ UNCHANGED <<srvCur, srvStatus, rows>>
     ELSE IF srvCur[s] = NSteps
     THEN /\ srvStatus' = [srvStatus EXCEPT ![s] = "completed"]
          /\ ops' = (ops \ {op}) \cup
                      {[op EXCEPT !.pc = "finished", !.v = Sentinel(s)]}
          /\ UNCHANGED <<srvCur, rows>>
     ELSE /\ Len(rows[s]) < MaxRows
          /\ srvCur' = [srvCur EXCEPT ![s] = @ + 1]
          /\ rows' = [rows EXCEPT ![s] =
                        Append(@, NewRow(srvCur[s] + 1, "pending"))]
          /\ ops' = (ops \ {op}) \cup
                      {[op EXCEPT !.pc = "moved",
                                  !.v = [sid |-> s, step |-> srvCur[s] + 1,
                                         status |-> "pending"]]}
          /\ UNCHANGED srvStatus
  /\ UNCHANGED <<clicks, tasks, storeVars, pageVars, hookVars>>

\* go_back
ServerBack(op) ==
  /\ op \in ops /\ op.h = "back" /\ op.pc = "sent"
  /\ LET s == op.sid IN
     IF BackAllowed(s)
     THEN /\ srvCur' = [srvCur EXCEPT ![s] = @ - 1]
          /\ ops' = (ops \ {op}) \cup
               {[op EXCEPT !.pc = "ok",
                           !.v = [sid |-> s, step |-> srvCur[s] - 1,
                                  status |-> rows[s][LatestRow(rows[s],
                                               srvCur[s] - 1)].status]]}
     ELSE /\ ops' = (ops \ {op}) \cup {[op EXCEPT !.pc = "err"]}
          /\ UNCHANGED srvCur
  /\ UNCHANGED <<clicks, srvStatus, rows, tasks, storeVars, pageVars, hookVars>>

(***************************************************************************)
(* The store and the page.                                                 *)
(***************************************************************************)
StoreStart ==
  /\ session = NoSession
  /\ progress = NoProgress
  /\ currentStep = NoStep
  /\ isSubmitting = FALSE
  /\ pollingTaskId = NoTask

PageStart ==
  /\ isPolling = FALSE
  /\ error = "null"
  /\ isAdvancing = FALSE

\* the three loads of the initial-load effect
InitialLoads(s, i) ==
  {Op("load", "session", s, i), Op("load", "progress", s, i),
   Op("load", "curstep", s, i)}

\* SessionPage renders the session once session and progress are loaded
PageShown == mounted /\ session # NoSession /\ progress # NoProgress

isCompleted == session.status = "completed"
isWaiting == isPolling \/ isSubmitting

canInput == ~isCompleted /\ currentStep.status = "pending" /\ ~isWaiting

canAdvanceAnyStatus == ~isCompleted /\ ~isPolling
canAdvance == currentStep.status = "completed" /\ ~isCompleted /\ ~isPolling

canGoBack == progress.current_index > 0 /\ ~isPolling

\* the user does one more thing
UserActs == clicks < MaxClicks /\ clicks' = clicks + 1

\* the render that follows a store change is done before anything else
Synced == mounted => taskId = pollingTaskId

\* the hook is rendered with taskId = pollingTaskId; useSession copies
\* polling = true into its own isPolling
RenderSync ==
  /\ mounted
  /\ taskId # pollingTaskId
  /\ Rerender(pollingTaskId)
  /\ isPolling' = (isPolling \/ (~polling /\ polling'))
  /\ UNCHANGED <<clicks, srvVars, storeVars, error, isAdvancing, ops>>

\* the page is opened on session s: a new instance of the hooks, the same
\* store
Mount(s) ==
  /\ ~mounted
  /\ UserActs
  /\ inst < MaxMounts
  /\ inst' = inst + 1
  /\ mounted' = TRUE
  /\ sessionId' = [sessionId EXCEPT ![inst + 1] = s]
  /\ taskId' = NoTask
  /\ polling' = FALSE
  /\ result' = NullResult
  /\ pollError' = "null"
  /\ stopped' = FALSE
  /\ runs' = Archived(runs)
  /\ isPolling' = FALSE
  /\ error' = "null"
  /\ isAdvancing' = FALSE
  /\ ops' = ops \cup InitialLoads(s, inst + 1)
  /\ UNCHANGED <<timerRef, delayRef, retriesRef, lateSignals, srvVars,
                 storeVars>>

\* the user leaves the page
Leave ==
  /\ Synced
  /\ Unmount
  /\ UserActs
  /\ UNCHANGED <<srvVars, storeVars, pageVars, ops>>

\* handleSubmit up to the POST
ClickSubmit ==
  /\ Synced /\ PageShown
  /\ UserActs
  /\ canInput
  /\ error' = "null"
  /\ isSubmitting' = TRUE
  /\ ops' = ops \cup {Op("submit", "sent", sessionId[inst], inst)}
  /\ UNCHANGED <<srvVars, session, progress, currentStep, pollingTaskId,
                 isPolling, isAdvancing, hookVars>>

\* handleAdvance up to the POST
ClickAdvance ==
  /\ Synced /\ PageShown
  /\ UserActs
  /\ canAdvance /\ ~isAdvancing
  /\ error' = "null"
  /\ isAdvancing' = TRUE
  /\ ops' = ops \cup {Op("advance", "sent", sessionId[inst], inst)}
  /\ UNCHANGED <<srvVars, storeVars, isPolling, hookVars>>

\* handleBack up to the POST
ClickBack ==
  /\ Synced /\ PageShown
  /\ UserActs
  /\ canGoBack
  /\ error' = "null"
  /\ ops' = ops \cup {Op("back", "sent", sessionId[inst], inst)}
  /\ UNCHANGED <<srvVars, storeVars, isPolling, isAdvancing, hookVars>>

\* submitStep of the store: isSubmitting once the request has settled with
\* op; set({ isSubmitting: false }) is in the finally block
SubmittingAfterNoFinally(op) == op.pc # "ok"
SubmittingAfter(op) == FALSE

\* the response of POST submit: the rest of the store's submitStep and of
\* handleSubmit
SubmitResponse(op) ==
  /\ Synced
  /\ op \in ops /\ op.h = "submit" /\ op.pc \in {"ok", "err"}
  /\ ops' = ops \ {op}
  /\ isSubmitting' = SubmittingAfter(op)
  /\ IF op.pc = "ok"
     THEN /\ pollingTaskId' = op.t
          /\ isPolling' = (isPolling \/ OpOnScreen(op))
          /\ UNCHANGED error
     ELSE /\ error' = IF OpOnScreen(op) THEN MsgSubmit ELSE error
          /\ UNCHANGED <<pollingTaskId, isPolling>>
  /\ UNCHANGED <<clicks, srvVars, session, progress, currentStep, isAdvancing,
                 hookVars>>

\* advanceStep and goBack of the store: the current step after the answer
\* v; the completion sentinel is not a step and is not stored
StoredStepNoSentinelTest(v) == v
StoredStep(v) == IF v.status = "sentinel" THEN currentStep ELSE v

\* the response of POST advance or POST back
MoveResponse(op) ==
  /\ Synced
  /\ op \in ops /\ op.h \in {"advance", "back"}
  /\ op.pc \in {"moved", "finished", "ok", "err"}
  /\ IF op.pc = "err"
     THEN /\ ops' = ops \ {op}
          /\ error' = IF ~OpOnScreen(op) THEN error
                      ELSE IF op.h = "advance" THEN MsgAdvance ELSE MsgBack
          /\ isAdvancing' = IF OpOnScreen(op) /\ op.h = "advance"
                            THEN FALSE ELSE isAdvancing
          /\ UNCHANGED currentStep
     ELSE /\ ops' = (ops \ {op}) \cup
               {[op EXCEPT !.pc = IF op.pc = "finished" THEN "session"
                                  ELSE "progress",
                           !.v = NoStep]}
          /\ currentStep' = StoredStep(op.v)
          /\ UNCHANGED <<error, isAdvancing>>
  /\ UNCHANGED <<clicks, srvVars, session, progress, isSubmitting, pollingTaskId,
                 isPolling, hookVars>>

\* handlePollComplete after its two setters: await loadCurrentStep() is
\* sent; t = the task whose completion was reported
CompleteLoads(s, i, t) == [Op("complete", "curstep", s, i) EXCEPT !.t = t]

\* the request a handler sends after the response of a GET
NextGet(h, pc) ==
  CASE h = "complete" /\ pc = "curstep" -> "progress"
    [] h = "complete" /\ pc = "progress" -> "session"
    [] h = "advance" /\ pc = "session" -> "progress"
    [] h = "advance" /\ pc = "progress" -> "curstep"
    [] OTHER -> "end"

\* the response of a GET: loadSession, loadProgress or loadCurrentStep
LoadResponse(op) ==
  /\ Synced
  /\ op \in ops /\ op.pc \in {"session", "progress", "curstep"}
  /\ session' = IF op.pc = "session" THEN GetSession(op.sid) ELSE session
  /\ progress' = IF op.pc = "progress" THEN GetProgress(op.sid)
                 ELSE progress
  /\ currentStep' = IF op.pc = "curstep" THEN GetCurrentStep(op.sid)
                    ELSE currentStep
  /\ LET next == NextGet(op.h, op.pc) IN
       /\ ops' = IF next = "end" THEN ops \ {op}
                 ELSE (ops \ {op}) \cup {[op EXCEPT !.pc = next]}
       /\ isAdvancing' = IF next = "end" /\ op.h = "advance"
                            /\ OpOnScreen(op)
                         THEN FALSE ELSE isAdvancing
  /\ UNCHANGED <<clicks, srvVars, isSubmitting, pollingTaskId, isPolling, error,
                 hookVars>>

\* a poll timer of the page fires
PageTimerFire(c) ==
  /\ Synced
  /\ TimerFire(c)
  /\ UNCHANGED appVars

\* a status request of the page settles: poll() with handlePollComplete or
\* handlePollError as its callbacks
PagePollReturn(c, r) ==
  /\ Synced
  /\ c \in RunIds
  /\ runs[c].st = "flight"
  /\ r \in {TaskStatusOf(runs[c].tid), Rejection}
  /\ PollReturn(c, r)
  /\ LET i == runs[c].inst
         branch == PollBranch(r, retriesRef[i])
         called == CallsOnComplete(branch) \/ CallsOnError(branch)
     IN /\ isPolling' = IF called /\ OnScreen(c) THEN FALSE ELSE isPolling
        /\ pollingTaskId' = IF called THEN NoTask ELSE pollingTaskId
        /\ error' = IF CallsOnError(branch) /\ OnScreen(c)
                    THEN BranchMessage(branch) ELSE error
        /\ ops' = IF CallsOnComplete(branch)
                  THEN ops \cup {CompleteLoads(sessionId[i], i, runs[c].tid)}
                  ELSE ops
  /\ UNCHANGED <<clicks, srvVars, session, progress, currentStep, isSubmitting,
                 isAdvancing>>

(***************************************************************************)
(* StepProgress and its StepItem buttons (components/session/              *)
(* StepProgress.tsx), rendered from props by a caller.                     *)
(***************************************************************************)
isStepCompletedAlways(step) == TRUE
\* const isCompleted = step.completed
isStepCompleted(step) == step.completed

\* <button disabled={!isCompleted}>
StepDisabled(step) == ~isStepCompleted(step)

\* onClick={() => isCompleted && onClick?.(step.code)}: the arguments
\* onClick is invoked with, one per invocation
StepItemOnClick(step, onClick) ==
  IF isStepCompleted(step) /\ onClick THEN <<step.code>> ELSE <<>>

\* the step handed to StepItem for code k
StepItem(k) == [code |-> k, completed |-> stepProgress[k]]

\* the full view lists the steps; the compact view only when expanded
StepItemsShown == ~compact \/ expanded

\* the step list before anything is rendered by a caller
StepsIdle ==
  /\ stepProgress = [k \in Steps |-> FALSE]
  /\ onStepClick = FALSE
  /\ compact = FALSE
  /\ expanded = FALSE
  /\ stepClicks = <<>>

\* the header button of the compact view: setExpanded(!expanded)
ToggleExpanded ==
  /\ compact
  /\ expanded' = ~expanded
  /\ UNCHANGED <<stepProgress, onStepClick, compact, stepClicks>>

\* a click on the button of step k; a disabled button dispatches no click
ClickStep(k) ==
  /\ StepItemsShown
  /\ Len(stepClicks) < MaxStepClicks
  /\ stepClicks' = Append(stepClicks,
       [code |-> k, completed |-> stepProgress[k], given |-> onStepClick,
        calls |-> IF StepDisabled(StepItem(k)) THEN <<>>
                  ELSE StepItemOnClick(StepItem(k), onStepClick)])
  /\ UNCHANGED <<stepProgress, onStepClick, compact, expanded>>

\* the caller renders again with a progress in which step k is completed
ProgressUpdate(k) ==
  /\ ~stepProgress[k]
  /\ stepProgress' = [stepProgress EXCEPT ![k] = TRUE]
  /\ UNCHANGED <<onStepClick, compact, expanded, stepClicks>>

Init ==
  /\ HookStart
  /\ StepsIdle
  /\ sessionId = [i \in Insts |-> IF i = 1 THEN 1 ELSE 0]
  /\ ops = InitialLoads(1, 1)
  /\ clicks = 0
  /\ BackendStart
  /\ StoreStart
  /\ PageStart

Next ==
  \/ RenderSync /\ UNCHANGED stepVars
  \/ \E s \in Sessions : Mount(s) /\ UNCHANGED stepVars
  \/ Leave /\ UNCHANGED stepVars
  \/ ClickSubmit /\ UNCHANGED stepVars
  \/ ClickAdvance /\ UNCHANGED stepVars
  \/ ClickBack /\ UNCHANGED stepVars
  \/ \E op \in ops : ServerSubmit(op) /\ UNCHANGED stepVars
  \/ \E op \in ops : ServerAdvance(op) /\ UNCHANGED stepVars
  \/ \E op \in ops : ServerBack(op) /\ UNCHANGED stepVars
  \/ \E t \in Tasks, ok \in BOOLEAN : Worker(t, ok) /\ UNCHANGED stepVars
  \/ \E op \in ops : SubmitResponse(op) /\ UNCHANGED stepVars
  \/ \E op \in ops : MoveResponse(op) /\ UNCHANGED stepVars
  \/ \E op \in ops : LoadResponse(op) /\ UNCHANGED stepVars
  \/ \E c \in RunIds : PageTimerFire(c) /\ UNCHANGED stepVars
  \/ \E c \in RunIds, r \in Responses : PagePollReturn(c, r) /\ UNCHANGED stepVars

Spec == Init /\ [][Next]_vars

(***************************************************************************)
(* The hook under a caller and a mocked getTaskStatus.                     *)
(***************************************************************************)
HookInit ==
  /\ HookStart
  /\ StepsIdle
  /\ sessionId = [i \in Insts |-> IF i = 1 THEN 1 ELSE 0]
  /\ BackendStart
  /\ StoreStart
  /\ PageStart
  /\ ops = {}
  /\ clicks = 0

HookNext ==
  \/ \E tid \in Tasks \cup {NoTask} : Rerender(tid) /\ UNCHANGED <<appVars, stepVars>>
  \/ StopPolling /\ UNCHANGED <<appVars, stepVars>>
  \/ Unmount /\ UNCHANGED <<appVars, stepVars>>
  \/ \E c \in RunIds : TimerFire(c) /\ UNCHANGED <<appVars, stepVars>>
  \/ \E c \in RunIds, r \in Responses : PollReturn(c, r) /\ UNCHANGED <<appVars, stepVars>>

SpecHook == HookInit /\ [][HookNext]_vars

(***************************************************************************)
(* The hook when every timer fires and every status request settles.       *)
(***************************************************************************)
FairSpecHook ==
  /\ SpecHook
  /\ WF_vars(\E c \in RunIds : TimerFire(c) /\ UNCHANGED <<appVars, stepVars>>)
  /\ WF_vars(\E c \in RunIds, r \in Responses :
               PollReturn(c, r) /\ UNCHANGED <<appVars, stepVars>>)

(***************************************************************************)
(* The session page when what does not depend on the user does happen:     *)
(* React renders after a store change, the backend answers every request,  *)
(* the worker resolves every handle, timers fire.                          *)
(***************************************************************************)
FairSpec ==
  /\ Spec
  /\ WF_vars(RenderSync /\ UNCHANGED stepVars)
  /\ WF_vars(\E op \in ops : ServerSubmit(op) /\ UNCHANGED stepVars)
  /\ WF_vars(\E op \in ops : ServerAdvance(op) /\ UNCHANGED stepVars)
  /\ WF_vars(\E op \in ops : ServerBack(op) /\ UNCHANGED stepVars)
  /\ WF_vars(\E t \in Tasks, ok \in BOOLEAN :
               Worker(t, ok) /\ UNCHANGED stepVars)
  /\ WF_vars(\E op \in ops : SubmitResponse(op) /\ UNCHANGED stepVars)
  /\ WF_vars(\E op \in ops : MoveResponse(op) /\ UNCHANGED stepVars)
  /\ WF_vars(\E op \in ops : LoadResponse(op) /\ UNCHANGED stepVars)
  /\ WF_vars(\E c \in RunIds : PageTimerFire(c) /\ UNCHANGED stepVars)
  /\ WF_vars(\E c \in RunIds, r \in Responses :
               PagePollReturn(c, r) /\ UNCHANGED stepVars)

(***************************************************************************)
(* The step list under a caller that renders it with some progress.        *)
(***************************************************************************)
StepsInit ==
  /\ HookStart
  /\ sessionId = [i \in Insts |-> IF i = 1 THEN 1 ELSE 0]
  /\ BackendStart
  /\ StoreStart
  /\ PageStart
  /\ ops = {}
  /\ clicks = 0
  /\ stepProgress \in [Steps -> BOOLEAN]
  /\ onStepClick \in BOOLEAN
  /\ compact \in BOOLEAN
  /\ expanded = FALSE
  /\ stepClicks = <<>>

StepsNext ==
  \/ ToggleExpanded /\ UNCHANGED <<hookVars, appVars>>
  \/ \E k \in Steps : ClickStep(k) /\ UNCHANGED <<hookVars, appVars>>
  \/ \E k \in Steps : ProgressUpdate(k) /\ UNCHANGED <<hookVars, appVars>>

SpecSteps == StepsInit /\ [][StepsNext]_vars

(***************************************************************************)
(* Properties of the polling hook.                                         *)
(***************************************************************************)
NonDecreasing(seq) == \A i \in 1..(Len(seq) - 1) : seq[i] <= seq[i + 1]
Capped(seq) == \A i \in 1..Len(seq) : seq[i] <= MAX_INTERVAL_MS

ReadySuccess == [ready |-> TRUE, status |-> "SUCCESS"]
ReadyFailure == [ready |-> TRUE, status |-> "FAILURE"]
StillPending == [ready |-> FALSE, status |-> "PENDING"]

Signals(c) == runs[c].nComplete + runs[c].nError

C2_CompleteOnce ==
  \A c \in RunIds :
    runs[c].fin = ReadySuccess =>
      runs[c].nComplete = 1 /\ runs[c].nError = 0

C2_Witness ==
  \E c \in RunIds : runs[c].fin = ReadySuccess /\ result = ReadySuccess

\* C3 (as claimed): a run whose poll returned ready=true with status
\* FAILURE has invoked onError exactly once and onComplete never
C3_FailureSignalsError ==
  \A c \in RunIds :
    runs[c].fin = ReadyFailure =>
      runs[c].nError = 1 /\ runs[c].nComplete = 0

C5_NoPollAfterTerminal ==
  \A c \in RunIds :
    Signals(c) > 0 => Signals(c) = 1 /\ runs[c].st = "done"

\* C5 witness: each kind of terminal signal has been given
C5_Witness ==
  \E c \in RunIds :
    /\ runs[c].nError = 1
    /\ runs[c].fin = Rejection
    /\ runs[c].st = "done"

\* C6 (as claimed): once stopPolling has been called (and no new run was
\* started) isPolling is false and no poll timer is scheduled
C6_StopPollingStops ==
  stopped => ~polling /\ \A c \in RunIds : runs[c].st # "timer"

\* C7 (as claimed): once the hook is unmounted no poll timer is scheduled
\* and no completion or failure is signalled
C7_UnmountStopsChecking ==
  ~mounted => ~lateSignals /\ \A c \in RunIds : runs[c].st # "timer"

(***************************************************************************)
(* Properties of the session page and the backend.                         *)
(***************************************************************************)
\* the input of the page is shown and enabled
InputEnabled == PageShown /\ Synced /\ canInput

\* a submit request or a poll of session s is outstanding
SubmitOutstanding(s) == \E op \in ops : op.h = "submit" /\ op.sid = s
PollOutstanding(s) ==
  \E c \in RunIds : Alive(c) /\ sessionId[runs[c].inst] = s
Unresolved(s, k) ==
  {t \in 1..Len(tasks) : /\ tasks[t].state = "PENDING"
                         /\ tasks[t].sid = s
                         /\ rows[s][tasks[t].row].step = k}

\* C8: submitting input for the current step is permitted exactly when the
\* current step's StepResult is pending or failed: the backend accepts a
\* submit exactly then, and the page that shows a session that is not
\* completed and waits for nothing enables its input exactly then.
C8_SubmitIffPendingOrFailed ==
  /\ \A s \in Sessions :
       srvStatus[s] = "active" =>
         (SubmitAllowed(s) <=> CurStatus(s) \in {"pending", "failed"})
  /\ (PageShown /\ Synced /\ currentStep # NoStep /\ ~isCompleted
        /\ ~isWaiting)
       => (canInput <=> currentStep.status \in {"pending", "failed"})

\* C9: at most one execution is unresolved per (session, step), and while a
\* submit request or a poll of the session on the page is outstanding the
\* input of the page is disabled.
C9_OneInFlight ==
  /\ \A s \in Sessions, k \in Steps : Cardinality(Unresolved(s, k)) <= 1
  /\ \A s \in Sessions :
       (mounted /\ sessionId[inst] = s
          /\ (SubmitOutstanding(s) \/ PollOutstanding(s)))
         => ~InputEnabled

AdvanceSent(op) == op.h = "advance" /\ op.pc = "sent"

\* C10: the page sends an advance only when its current step is completed;
\* the backend answers an advance on an active session whose current step
\* is not completed with an error and changes nothing, and on a completed
\* current step it moves current_step to the next step of the registry
\* with a pending StepResult, or completes the session on the last step;
\* nothing else moves current_step forward or completes a session.
C10_AdvanceOnlyFromCompleted ==
  [][/\ \A op \in ops' \ ops :
          AdvanceSent(op) => currentStep.status = "completed"
     /\ \A op \in ops \ ops' :
          (AdvanceSent(op) /\ srvStatus[op.sid] = "active") =>
            LET s == op.sid IN
            IF CurStatus(s) # "completed"
            THEN /\ srvVars' = srvVars
                 /\ [op EXCEPT !.pc = "err"] \in ops'
            ELSE IF srvCur[s] = NSteps
            THEN /\ srvStatus'[s] = "completed"
                 /\ srvCur'[s] = srvCur[s]
            ELSE /\ srvCur'[s] = srvCur[s] + 1
                 /\ srvStatus'[s] = "active"
                 /\ rows'[s][LatestRow(rows'[s], srvCur'[s])].status
                      = "pending"
     /\ \A s \in Sessions :
          (srvCur'[s] > srvCur[s] \/ srvStatus'[s] # srvStatus[s]) =>
            /\ CurStatus(s) = "completed"
            /\ \E op \in ops \ ops' : AdvanceSent(op) /\ op.sid = s
    ]_vars

\* an advance has moved a session to its last step and another has
\* completed it
C10_Witness ==
  \E s \in Sessions : srvStatus[s] = "completed" /\ srvCur[s] = NSteps

\* the page on screen shows session s and has loaded its data
Showing(s) ==
  /\ PageShown /\ Synced
  /\ sessionId[inst] = s
  /\ session.sid = s /\ progress.sid = s /\ currentStep.sid = s

\* ChatInterface renders no input area for a completed session
InputHidden == isCompleted

\* C11: once a session is completed (advanced past the last step) it stays
\* completed and no mutating action is callable: the backend accepts no
\* submit and no advance, and the page that shows the completed session
\* offers no Advance, hides the input area and offers no Back.
C11_CompletedIsFinal ==
  /\ [][\A s \in Sessions :
          srvStatus[s] = "completed" => srvStatus'[s] = "completed"]_vars
  /\ [](\A s \in Sessions :
          srvStatus[s] = "completed" =>
            /\ ~SubmitAllowed(s) /\ ~AdvanceAllowed(s)
            /\ (Showing(s) /\ isCompleted) =>
                 (~canAdvance /\ InputHidden /\ ~canInput /\ ~canGoBack))

BackSent(op) == op.h = "back" /\ op.pc = "sent"

\* C12: a go_back that succeeds moves current_step to the step right
\* before it, a go_back fails exactly at the first step, and the page does
\* not offer Back while the session it shows is positioned at the first
\* step.
C12_BackWalksBackward ==
  /\ [][\A op \in ops \ ops' :
          BackSent(op) =>
            LET s == op.sid IN
            IF srvCur[s] = 1
            THEN srvVars' = srvVars /\ [op EXCEPT !.pc = "err"] \in ops'
            ELSE srvCur'[s] = srvCur[s] - 1 /\ rows' = rows]_vars
  /\ [](\A s \in Sessions :
          (Showing(s) /\ srvCur[s] = 1 /\ currentStep.step = 1)
            => ~canGoBack)

\* C13: submit, advance and back are mutually exclusive: the page that
\* shows a session enables at most one of the input, Advance and Back.
C13_MutuallyExclusive ==
  \A s \in Sessions :
    Showing(s) =>
      /\ ~(canInput /\ canAdvance)
      /\ ~(canInput /\ canGoBack)
      /\ ~(canAdvance /\ canGoBack)

\* session s has been moved back: a later step has a StepResult
WentBack(s) == \E j \in 1..Len(rows[s]) : rows[s][j].step > srvCur[s]

\* a StepResult that is completed or failed is an attempt that has ended
Ended(row) == row.status \in {"completed", "failed"}

\* C14: go_back changes no StepResult, no attempt that has ended is ever
\* changed or removed from the history, and on the page that shows a
\* session positioned on a step it went back to (nothing being submitted
\* or polled) the input is enabled for a re-submission.
C14_BackKeepsResultAndAllowsResubmit ==
  /\ [][/\ \A op \in ops \ ops' : BackSent(op) => rows' = rows
        /\ \A s \in Sessions :
             /\ Len(rows'[s]) >= Len(rows[s])
             /\ \A j \in 1..Len(rows[s]) :
                  Ended(rows[s][j]) => rows'[s][j] = rows[s][j]]_vars
  /\ [](\A s \in Sessions :
          (Showing(s) /\ WentBack(s) /\ currentStep = GetCurrentStep(s)
             /\ ~isCompleted /\ ~isWaiting)
            => canInput)

\* C15: sessions share no client state: what the store holds while the
\* page of session s is on screen (session, progress, current step, the
\* polling task id) belongs to s, and every status request is made with
\* the session id of the session the task was submitted for.
C15_SessionsIndependent ==
  /\ mounted =>
       /\ session.sid \in {0, sessionId[inst]}
       /\ progress.sid \in {0, sessionId[inst]}
       /\ currentStep.sid \in {0, sessionId[inst]}
       /\ pollingTaskId # NoTask =>
            tasks[pollingTaskId].sid = sessionId[inst]
  /\ \A c \in RunIds :
       Alive(c) => tasks[runs[c].tid].sid = sessionId[runs[c].inst]

\* the step is the timeout of run c: its last request was answered "not
\* ready" and the run ended with it
TimesOut(c) ==
  /\ c \in RunIds /\ runs[c].st = "flight"
  /\ runs'[c].st = "done" /\ runs'[c].fin = StillPending

\* C16: a polling timeout changes nothing on the backend, and the client
\* keeps the handle, so that the same handle can be checked again.
C16_TimeoutIsLocal ==
  [][\A c \in RunIds :
       TimesOut(c) =>
         /\ srvVars' = srvVars
         /\ pollingTaskId' = pollingTaskId]_vars

SubmitSent(op) == op.h = "submit" /\ op.pc = "sent"

\* C17: a StepResult that failed has status failed and notes that are not
\* empty, from the moment its execution is rejected; a submit that is
\* accepted on a failed step adds a new StepResult of the same step and
\* leaves every earlier one, the failed one included, as it was.
C17_RetryIsNewRow ==
  /\ [](\A s \in Sessions : \A j \in 1..Len(rows[s]) :
          rows[s][j].status = "failed" => rows[s][j].notes)
  /\ [][/\ \A t \in 1..Len(tasks) :
             (tasks[t].state = "PENDING" /\ tasks'[t].state = "FAILURE") =>
               /\ rows'[tasks[t].sid][tasks[t].row].status = "failed"
               /\ rows'[tasks[t].sid][tasks[t].row].notes
        /\ \A op \in ops \ ops' :
             (SubmitSent(op) /\ CurStatus(op.sid) = "failed"
                /\ Len(tasks') > Len(tasks)) =>
               LET s == op.sid IN
               /\ Len(rows'[s]) = Len(rows[s]) + 1
               /\ \A j \in 1..Len(rows[s]) : rows'[s][j] = rows[s][j]
               /\ rows'[s][Len(rows'[s])] = NewRow(srvCur[s], "in_progress")
               /\ tasks'[Len(tasks')].row = Len(rows'[s])]_vars

\* a step failed, was submitted again, and the retry was completed: both
\* attempts are in the history
C17_Witness ==
  \E s \in Sessions : \E j, k \in 1..Len(rows[s]) :
    /\ j < k /\ rows[s][j].step = rows[s][k].step
    /\ rows[s][j].status = "failed" /\ rows[s][j].notes
    /\ rows[s][k].status = "completed"

\* C18: current_step of every session is a step of the step list, and so
\* is the current step the client holds (when it holds one).
C18_CurrentStepValid ==
  /\ \A s \in Sessions : srvCur[s] \in Steps
  /\ currentStep # NoStep => currentStep.step \in Steps

\* a session has gone through start, submits and advances past its last
\* step, and the client has handled the answer of the last advance
C18_Witness ==
  \E s \in Sessions :
    /\ srvStatus[s] = "completed" /\ srvCur[s] = NSteps
    /\ currentStep.sid = s /\ currentStep.step = NSteps
    /\ \A op \in ops : op.h # "advance"

\* run c gets a timer or issues a request in this step
Proceeds(c) ==
  /\ runs'[c].st \in {"timer", "flight"}
  /\ runs'[c].st # runs[c].st

\* C19: while the taskId of the mounted hook is null, no getTaskStatus
\* request is issued and no poll timer is scheduled.
C19_NoPollWithoutTask ==
  [][(mounted /\ mounted' /\ taskId = NoTask /\ taskId' = NoTask) =>
       \A c \in RunIds : ~Proceeds(c)]_vars

\* the delay before the i-th poll with the default configuration
DefaultDelay(i) ==
  CASE i = 1 -> 1000
    [] i = 2 -> 1500
    [] i = 3 -> 2250
    [] OTHER -> 3000

AliveChains(i) == {c \in RunIds : runs[c].inst = i /\ Alive(c)}
PendingTimers(i) == {c \in RunIds : runs[c].inst = i /\ TimerPending(c)}

\* C26: an instance of the hook never has more than one poll chain alive,
\* never more than one poll timer pending, and every pending timer is the
\* one timerRef holds, so that clearTimer can cancel it.
C26_OneChainAlive ==
  \A i \in Insts :
    /\ Cardinality(AliveChains(i)) <= 1
    /\ Cardinality(PendingTimers(i)) <= 1
    /\ \A c \in PendingTimers(i) : timerRef[i] = c

\* the request of chain c is for a taskId the hook has been re-rendered
\* away from, to a new one
StaleRequest(c) ==
  /\ OnScreen(c) /\ runs[c].st = "flight"
  /\ taskId # NoTask /\ runs[c].tid # taskId

\* C27: when the response to a request for a previous taskId arrives after
\* the hook was restarted with a new taskId, no callback is invoked,
\* result, error and isPolling keep their values, and delayRef and
\* retriesRef, which now belong to the new run, keep theirs.
C27_StaleResponseIsIgnored ==
  [][\A c \in RunIds :
       (StaleRequest(c) /\ c \in DOMAIN runs' /\ runs'[c].st # "flight") =>
         /\ runs'[c].nComplete = runs[c].nComplete
         /\ runs'[c].nError = runs[c].nError
         /\ result' = result /\ pollError' = pollError /\ polling' = polling
         /\ delayRef' = delayRef /\ retriesRef' = retriesRef]_vars

\* C28: while the hook is mounted, isPolling is true only if a poll timer
\* is pending or a status request is in flight, and, timers firing and
\* requests settling, isPolling = true is followed by isPolling = false.
C28_PollingTerminates ==
  /\ [](mounted /\ polling => AliveChains(inst) # {})
  /\ ((mounted /\ polling) ~> (~polling \/ ~mounted))

\* a computation submitted from the page on screen is outstanding: its
\* submit request has not settled, or the poll run of the task it returned
\* has not signalled
ComputationOutstanding ==
  /\ PageShown /\ Synced
  /\ \/ \E op \in ops : op.h = "submit" /\ OpOnScreen(op)
     \/ \E c \in RunIds : /\ OnScreen(c) /\ Alive(c)
                           /\ runs[c].tid = pollingTaskId

\* C29: from the moment the page sends a submit request until the poll run
\* of its task reaches a terminal signal, the page offers neither Advance
\* nor Back.
C29_NoMoveWhileComputing ==
  ComputationOutstanding => (~canAdvance /\ ~canGoBack)

(***************************************************************************)
(* Properties of the step list.                                            *)
(***************************************************************************)
\* C23: a click on a step button invokes onStepClick, once and with that
\* step's code, if and only if the step is marked completed; a click on a
\* step that is not completed invokes nothing.
C23_ClickInvokesIffCompleted ==
  \A i \in 1..Len(stepClicks) :
    LET c == stepClicks[i] IN
      /\ c.given => (c.calls = <<c.code>> <=> c.completed)
      /\ ~c.completed => c.calls = <<>>

\* a completed step and a step that is not completed have both been clicked
C23_Witness ==
  \E i, j \in 1..Len(stepClicks) :
    /\ stepClicks[i].given /\ stepClicks[i].completed
    /\ stepClicks[i].calls = <<stepClicks[i].code>>
    /\ stepClicks[j].given /\ ~stepClicks[j].completed

\* C25: when a submit request fails, pollingTaskId, the session, the
\* progress, the current step and isPolling keep their values, no polling
\* run is started, isSubmitting becomes false and the page that sent the
\* request, if still on screen, gets the error message; when it succeeds,
\* pollingTaskId becomes the returned task id and isSubmitting becomes
\* false.
C25_FailedSubmitOnlySetsError ==
  [][\A op \in ops \ ops' :
       /\ (op.h = "submit" /\ op.pc = "err") =>
            /\ pollingTaskId' = pollingTaskId
            /\ runs' = runs /\ taskId' = taskId /\ polling' = polling
            /\ <<session, progress, currentStep, isPolling>>' =
                 <<session, progress, currentStep, isPolling>>
            /\ ~isSubmitting'
            /\ OpOnScreen(op) => error' = MsgSubmit
       /\ (op.h = "submit" /\ op.pc = "ok") =>
            /\ pollingTaskId' = op.t /\ op.t \in Tasks
            /\ ~isSubmitting']_vars

\* a submit request has failed and the page shows its error
C25_Witness == mounted /\ error = MsgSubmit /\ ~isSubmitting

(***************************************************************************)
(* Properties of the session page that need fairness.                      *)
(***************************************************************************)
\* handlePollComplete of the instance on screen is waiting for the current
\* step, the task it was called for succeeded, and the page is still on
\* the step that was submitted
ReloadingAfterSuccess ==
  \E op \in ops :
    /\ op.h = "complete" /\ op.pc = "curstep" /\ OpOnScreen(op)
    /\ tasks[op.t].state = "SUCCESS"
    /\ currentStep.sid = op.sid
    /\ currentStep.step = rows[tasks[op.t].sid][tasks[op.t].row].step

AdvanceOffered ==
  PageShown /\ Synced /\ currentStep.status = "completed" /\ canAdvance

\* C24: when a poll of the instance on screen reports completion,
\* isPolling becomes false, pollingTaskId becomes null and the reload of
\* the current step is sent; the reload of the progress follows it and the
\* reload of the session follows that; and if the task had succeeded, the
\* page later shows the current step as completed and offers Advance,
\* unless the user has left the page.
C24_CompletionReloadsAndOffersAdvance ==
  /\ [][\A c \in RunIds :
         (c \in DOMAIN runs' /\ OnScreen(c) /\ runs[c].st = "flight"
          /\ runs'[c].nComplete = runs[c].nComplete + 1) =>
           /\ ~isPolling' /\ pollingTaskId' = NoTask
           /\ CompleteLoads(sessionId[inst], inst, runs[c].tid) \in ops']_vars
  /\ [][\A op \in ops \ ops' :
         (op.h = "complete" /\ op.pc = "curstep") =>
           [op EXCEPT !.pc = "progress"] \in ops']_vars
  /\ [][\A op \in ops \ ops' :
         (op.h = "complete" /\ op.pc = "progress") =>
           [op EXCEPT !.pc = "session"] \in ops']_vars
  /\ (ReloadingAfterSuccess ~> (AdvanceOffered \/ ~mounted))

====
